---- MODULE Spec2Model ----
(***************************************************************************)
(* Model of the two Transform stages of node-lame: the Decoder             *)
(* (mpg123 feed/read/id3 loop) and the Encoder (lame encode/flush with a   *)
(* remainder buffer).  One stage instance is modelled per behaviour; the   *)
(* stream framework (node's Transform) and the native engine are the       *)
(* environment: the framework calls _transform only after the previous     *)
(* chunk's done(), calls _flush after the last chunk's done(), and may     *)
(* destroy the stream at any time; the engine answers every call through   *)
(* its callback with a result chosen nondeterministically.                 *)
(***************************************************************************)
EXTENDS Integers, Sequences, FiniteSets, TLC

VARIABLES
  stage,        \* "Decoder" or "Encoder": the class of the instance
  stream,       \* framework state of the stream
  chunkActive,  \* _transform/_flush was called and its done() has not run
  calls,        \* engine calls issued whose callback has not run yet
  error,        \* the error handed to done(), or NoError
  doneCalls,    \* how often done() ran for the current chunk / flush
  handle,       \* this.mh / this.gfp: "live" or "null"
  releases,     \* number of release calls made on the handle
  out,          \* calls of this.push / this.emit, in order
  nChunks,      \* chunks handed to _transform so far
  \* ---- Decoder
  rd,           \* (ret, bytes, meta, gen) of the read being handled
  last,         \* what was done for the last handled read
  engGen,       \* engine: number of NEW_FORMAT statuses reported
  nReads,       \* reads issued so far
  lastFeed,     \* engine: status reported by the last mpg123_feed
  engPcm,       \* engine: the reads that reported bytes > 0
  \* ---- Encoder
  opts,         \* the options object given to the constructor
  inputType,    \* this.inputType
  bitDepth,     \* this.bitDepth
  channels,     \* this.channels
  initCalled,   \* this._initCalled
  initRuns,     \* successful runs of lame_init_params
  blockAlign,   \* this.blockAlign (0 while unset)
  remainder,    \* this._remainder (<<>> for null/undefined)
  written,      \* input bytes written so far
  submitted,    \* concatenation of the buffers given to lame_encode_buffer
  lastSubmit,   \* the buffer given to the last lame_encode_buffer call
  engSamples,   \* engine: sample frames received
  engUnits,     \* engine: output units produced
  lastResult,   \* engine: result reported by the last encode/flush call
  flushCb,      \* the flush callback has run
  propWrite,    \* outcome of the last write of an engine property
  staleUse      \* a binding call was given a handle already closed

vars == <<stage, stream, chunkActive, calls, error, doneCalls, handle, releases,
          out, nChunks, rd, last, engGen, nReads, lastFeed, engPcm, opts, inputType, bitDepth,
          channels, initCalled, initRuns, blockAlign, remainder, written,
          submitted, lastSubmit, engSamples, engUnits, lastResult, flushCb,
          propWrite, staleUse>>

decVars == <<rd, last, engGen, nReads, lastFeed, engPcm>>
encVars == <<opts, inputType, bitDepth, channels, initCalled, initRuns,
             blockAlign, remainder, written, submitted, lastSubmit,
             engSamples, engUnits, lastResult, flushCb, propWrite, staleUse>>

(***************************************************************************)
(* Bounds of the model.                                                    *)
(***************************************************************************)
MaxChunks == 2
MaxWrites == 3
MaxReads == 3
MaxChunkLen == 5
MaxInput == 9
MaxChannels == 2
FrameSamples == 2

(***************************************************************************)
(* Constants of the bindings.                                              *)
(***************************************************************************)
MPG123_OK == 0
MPG123_DONE == -12
MPG123_NEW_ID3 == 1
MPG123_NEED_MORE == -10
MPG123_NEW_FORMAT == -11
MPG123_ERR == -1
LAME_OKAY == 0
SHORT_BITS == 16
FLOAT_BITS == 32
DOUBLE_BITS == 64

NoError == <<"none", 0>>
NoRead == [no |-> 0, ret |-> 0, bytes |-> 0, meta |-> 0, gen |-> 0]
NoLast == [no |-> 0, ret |-> 0, bytes |-> 0, meta |-> 0,
           fetched |-> FALSE, id3Emitted |-> FALSE, pushed |-> FALSE]

\* statuses mpg123_read may report; MPG123_ERR stands for "any other status"
ReadStatuses == {MPG123_OK, MPG123_NEW_FORMAT, MPG123_DONE, MPG123_NEED_MORE, MPG123_ERR}
EndStatuses == {MPG123_DONE, MPG123_NEED_MORE, MPG123_ERR}
\* mpg123 meta flags of a read: none, or ID3 present (2) and new (MPG123_NEW_ID3)
Metas == {0, 2 + MPG123_NEW_ID3}
\* keys of ERRORS
ERRORS == {-1, -2, -3, -4}

(***************************************************************************)
(* JavaScript helpers.                                                     *)
(***************************************************************************)
RECURSIVE BitAnd(_, _)
BitAnd(a, b) ==
  IF a = 0 \/ b = 0 THEN 0
  ELSE (IF a % 2 = 1 /\ b % 2 = 1 THEN 1 ELSE 0) + 2 * BitAnd(a \div 2, b \div 2)

\* a boolean operand of a bitwise operator is converted to 1 or 0
ToNumber(b) == IF b THEN 1 ELSE 0

\* the "new ID3" bit of a read's meta flags
HasNewId3(meta) == BitAnd(meta, MPG123_NEW_ID3) # 0

\* `meta & MPG123_NEW_ID3 !== 0`: !== binds tighter than &, so this is
\* meta & (MPG123_NEW_ID3 !== 0); when truthy the read is handled at once
SkipsId3(meta) == BitAnd(meta, ToNumber(MPG123_NEW_ID3 # 0)) # 0

Range(a, b) == [i \in 1..(b - a + 1) |-> a + i - 1]

\* done(err) of a chunk: the framework takes the chunk as consumed and, on an
\* error, fails the stream
DoneCb(e) ==
  /\ chunkActive' = FALSE
  /\ doneCalls' = doneCalls + 1
  /\ error' = e
  /\ stream' = IF stream \in {"open", "ending"} /\ e # NoError THEN "errored" ELSE stream

NotDone == UNCHANGED <<chunkActive, doneCalls, error, stream>>

(***************************************************************************)
(* Decoder                                                                 *)
(***************************************************************************)

\* Decoder._transform: feed the chunk
DecTransform ==
  /\ stage = "Decoder" /\ stream = "open" /\ ~chunkActive
  /\ nChunks < MaxChunks /\ nReads < MaxReads
  /\ nChunks' = nChunks + 1
  /\ chunkActive' = TRUE
  /\ doneCalls' = 0
  /\ calls' = Append(calls, "feed")
  /\ UNCHANGED <<stage, stream, error, handle, releases, out, decVars, encVars>>

\* read(): a fresh out buffer and one mpg123_read
IssueRead(pending) ==
  /\ calls' = Append(pending, "read")
  /\ nReads' = nReads + 1

\* a feed callback without the `return` before read(): done(err) also runs
FeedCallback_NoReturn ==
  /\ calls # <<>> /\ Head(calls) = "feed"
  /\ \E ret \in {MPG123_OK, MPG123_ERR} :
       /\ lastFeed' = ret
       /\ IF ret = MPG123_OK
            THEN /\ IssueRead(Tail(calls))
                 /\ DoneCb(<<"mpg123_feed", ret>>)
            ELSE /\ calls' = Tail(calls)
                 /\ DoneCb(<<"mpg123_feed", ret>>)
                 /\ UNCHANGED nReads
  /\ UNCHANGED <<stage, handle, releases, out, nChunks, rd, last, engGen,
                 engPcm, encVars>>

\* a feed callback that reads whatever the status is
FeedCallback_AlwaysRead ==
  /\ calls # <<>> /\ Head(calls) = "feed"
  /\ \E ret \in {MPG123_OK, MPG123_ERR} : lastFeed' = ret
  /\ IssueRead(Tail(calls))
  /\ NotDone
  /\ UNCHANGED <<stage, handle, releases, out, nChunks, rd, last, engGen,
                 engPcm, encVars>>

\* callback of mpg123_feed
FeedCallback ==
  /\ calls # <<>> /\ Head(calls) = "feed"
  /\ \E ret \in {MPG123_OK, MPG123_ERR} :
       /\ lastFeed' = ret
       /\ IF ret = MPG123_OK
            THEN /\ IssueRead(Tail(calls))
                 /\ NotDone
            ELSE /\ calls' = Tail(calls)
                 /\ DoneCb(<<"mpg123_feed", ret>>)
                 /\ UNCHANGED nReads
  /\ UNCHANGED <<stage, handle, releases, out, nChunks, rd, last, engGen,
                 engPcm, encVars>>

\* handleRead without the emission of the format event
HandleRead_NoFormat(r, evts, fetched, emitted) ==
  LET pushed == IF r.bytes > 0 THEN Append(evts, <<"pcm", r.no, r.gen>>) ELSE evts
  IN
  /\ last' = [no |-> r.no, ret |-> r.ret, bytes |-> r.bytes, meta |-> r.meta,
              fetched |-> fetched, id3Emitted |-> emitted, pushed |-> r.bytes > 0]
  /\ out' = pushed
  /\ IF r.ret = MPG123_DONE \/ r.ret = MPG123_NEED_MORE
       THEN /\ calls' = Tail(calls)
            /\ DoneCb(NoError)
            /\ UNCHANGED nReads
       ELSE IF r.ret # MPG123_OK /\ r.ret # MPG123_NEW_FORMAT
         THEN /\ calls' = Tail(calls)
              /\ DoneCb(<<"mpg123_read", r.ret>>)
              /\ UNCHANGED nReads
         ELSE /\ IssueRead(Tail(calls))
              /\ NotDone

\* handleRead that reads again after done() (a missing return)
HandleRead_ReadAfterDone(r, evts, fetched, emitted) ==
  LET pushed == IF r.bytes > 0 THEN Append(evts, <<"pcm", r.no, r.gen>>) ELSE evts
  IN
  /\ last' = [no |-> r.no, ret |-> r.ret, bytes |-> r.bytes, meta |-> r.meta,
              fetched |-> fetched, id3Emitted |-> emitted, pushed |-> r.bytes > 0]
  /\ out' = IF r.ret = MPG123_NEW_FORMAT
              THEN Append(pushed, <<"format", r.no, r.gen + 1>>) ELSE pushed
  /\ IF r.ret = MPG123_DONE \/ r.ret = MPG123_NEED_MORE
       THEN /\ IssueRead(Tail(calls))
            /\ DoneCb(NoError)
       ELSE IF r.ret # MPG123_OK /\ r.ret # MPG123_NEW_FORMAT
         THEN /\ calls' = Tail(calls)
              /\ DoneCb(<<"mpg123_read", r.ret>>)
              /\ UNCHANGED nReads
         ELSE /\ IssueRead(Tail(calls))
              /\ NotDone

\* handleRead that dispatches on DONE / NEED_MORE before it pushes
HandleRead_DropsFinalPcm(r, evts, fetched, emitted) ==
  LET final == r.ret = MPG123_DONE \/ r.ret = MPG123_NEED_MORE
      pushed == IF r.bytes > 0 /\ ~final
                  THEN Append(evts, <<"pcm", r.no, r.gen>>) ELSE evts
  IN
  /\ last' = [no |-> r.no, ret |-> r.ret, bytes |-> r.bytes, meta |-> r.meta,
              fetched |-> fetched, id3Emitted |-> emitted,
              pushed |-> r.bytes > 0 /\ ~final]
  /\ out' = IF r.ret = MPG123_NEW_FORMAT
              THEN Append(pushed, <<"format", r.no, r.gen + 1>>) ELSE pushed
  /\ IF final
       THEN /\ calls' = Tail(calls)
            /\ DoneCb(NoError)
            /\ UNCHANGED nReads
       ELSE IF r.ret # MPG123_OK /\ r.ret # MPG123_NEW_FORMAT
         THEN /\ calls' = Tail(calls)
              /\ DoneCb(<<"mpg123_read", r.ret>>)
              /\ UNCHANGED nReads
         ELSE /\ IssueRead(Tail(calls))
              /\ NotDone

\* handleRead that takes only MPG123_DONE as the end of the chunk
HandleRead_NeedMoreFails(r, evts, fetched, emitted) ==
  LET pushed == IF r.bytes > 0 THEN Append(evts, <<"pcm", r.no, r.gen>>) ELSE evts
  IN
  /\ last' = [no |-> r.no, ret |-> r.ret, bytes |-> r.bytes, meta |-> r.meta,
              fetched |-> fetched, id3Emitted |-> emitted, pushed |-> r.bytes > 0]
  /\ out' = IF r.ret = MPG123_NEW_FORMAT
              THEN Append(pushed, <<"format", r.no, r.gen + 1>>) ELSE pushed
  /\ IF r.ret = MPG123_DONE
       THEN /\ calls' = Tail(calls)
            /\ DoneCb(NoError)
            /\ UNCHANGED nReads
       ELSE IF r.ret # MPG123_OK /\ r.ret # MPG123_NEW_FORMAT
         THEN /\ calls' = Tail(calls)
              /\ DoneCb(<<"mpg123_read", r.ret>>)
              /\ UNCHANGED nReads
         ELSE /\ IssueRead(Tail(calls))
              /\ NotDone

\* handleRead(ret, bytes) for the read r, with the events emitted before it
HandleRead(r, evts, fetched, emitted) ==
  LET pushed == IF r.bytes > 0 THEN Append(evts, <<"pcm", r.no, r.gen>>) ELSE evts
  IN
  /\ last' = [no |-> r.no, ret |-> r.ret, bytes |-> r.bytes, meta |-> r.meta,
              fetched |-> fetched, id3Emitted |-> emitted, pushed |-> r.bytes > 0]
  /\ IF r.ret = MPG123_DONE \/ r.ret = MPG123_NEED_MORE
       THEN /\ out' = pushed
            /\ calls' = Tail(calls)
            /\ DoneCb(NoError)
            /\ UNCHANGED nReads
       ELSE IF r.ret = MPG123_NEW_FORMAT
         THEN /\ out' = Append(pushed, <<"format", r.no, r.gen + 1>>)
              /\ IssueRead(Tail(calls))
              /\ NotDone
         ELSE IF r.ret # MPG123_OK
           THEN /\ out' = pushed
                /\ calls' = Tail(calls)
                /\ DoneCb(<<"mpg123_read", r.ret>>)
                /\ UNCHANGED nReads
           ELSE /\ out' = pushed
                /\ IssueRead(Tail(calls))
                /\ NotDone

\* callback of mpg123_read
ReadCallback ==
  /\ calls # <<>> /\ Head(calls) = "read"
  /\ \E ret \in (IF nReads < MaxReads THEN ReadStatuses ELSE EndStatuses),
        bytes \in {0, 1}, meta \in Metas :
       LET r == [no |-> nReads, ret |-> ret, bytes |-> bytes, meta |-> meta,
                 gen |-> engGen]
       IN
       /\ engGen' = IF ret = MPG123_NEW_FORMAT THEN engGen + 1 ELSE engGen
       /\ engPcm' = IF bytes > 0 THEN engPcm \cup {nReads} ELSE engPcm
       /\ IF SkipsId3(meta)
            THEN /\ HandleRead(r, out, FALSE, FALSE)
                 /\ rd' = NoRead
            ELSE /\ rd' = r
                 /\ calls' = Append(Tail(calls), "id3")
                 /\ NotDone
                 /\ UNCHANGED <<out, last, nReads>>
  /\ UNCHANGED <<stage, handle, releases, nChunks, lastFeed, encVars>>

\* callback of mpg123_id3
Id3Callback ==
  /\ calls # <<>> /\ Head(calls) = "id3"
  /\ \E ret2 \in {MPG123_OK, MPG123_ERR}, tag \in BOOLEAN :
       IF ret2 = MPG123_OK
         THEN HandleRead(rd,
                Append(out, <<IF tag THEN "id3v1" ELSE "id3v2", rd.no, 0>>),
                TRUE, TRUE)
         ELSE /\ calls' = Tail(calls)
              /\ DoneCb(<<"mpg123_id3", ret2>>)
              /\ last' = [no |-> rd.no, ret |-> rd.ret, bytes |-> rd.bytes,
                          meta |-> rd.meta, fetched |-> TRUE,
                          id3Emitted |-> FALSE, pushed |-> FALSE]
              /\ UNCHANGED <<out, nReads>>
  /\ rd' = NoRead
  /\ UNCHANGED <<stage, handle, releases, nChunks, engGen, lastFeed, engPcm,
                 encVars>>

\* end of input: the class has no _flush and no _destroy, the stream finishes
DecEnd ==
  /\ stage = "Decoder" /\ stream = "open" /\ ~chunkActive
  /\ stream' = "finished"
  /\ UNCHANGED <<stage, chunkActive, calls, error, doneCalls, handle, releases,
                 out, nChunks, decVars, encVars>>

\* the pipeline destroys the stream; the class has no _destroy
Destroy ==
  /\ stream \in {"open", "ending"}
  /\ stream' = "destroyed"
  /\ UNCHANGED <<stage, chunkActive, calls, error, doneCalls, handle, releases,
                 out, nChunks, decVars, encVars>>

(***************************************************************************)
(* Encoder                                                                 *)
(***************************************************************************)

\* the parameters the constructor destructures out of its argument
Destructured == {"channels", "bitDepth", "simpleRate", "signed"}

\* `...options`: the argument's remaining properties
Rest(o) == [k \in (DOMAIN o) \ Destructured |-> o[k]]

\* a destructured parameter with its default
Param(o, k, default) == IF k \in DOMAIN o THEN o[k] ELSE default

\* options.float as a condition (a missing property is undefined, falsy)
Truthy(o, k) == k \in DOMAIN o /\ o[k] = TRUE

\* options.bitDepth == n (undefined == n is false for every number n)
LooseEq(o, k, n) == k \in DOMAIN o /\ o[k] = n

\* the selection of this.inputType from `options`
InputTypeOf(options) ==
  IF Truthy(options, "float") /\ LooseEq(options, "bitDepth", DOUBLE_BITS)
    THEN "PCM_TYPE_DOUBLE"
  ELSE IF Truthy(options, "float") /\ LooseEq(options, "bitDepth", FLOAT_BITS)
    THEN "PCM_TYPE_FLOAT"
  ELSE IF ~Truthy(options, "float") /\ LooseEq(options, "bitDepth", SHORT_BITS)
    THEN "PCM_TYPE_SHORT_INT"
  ELSE "unsupported"

\* new Encoder(opts)
EncoderConstructor ==
  /\ stage = "Encoder" /\ stream = "new"
  /\ handle' = "live"
  /\ LET type == InputTypeOf(Rest(opts))
     IN IF type = "unsupported"
          THEN /\ stream' = "ctorThrew"
               /\ UNCHANGED <<inputType, channels, bitDepth>>
          ELSE /\ stream' = "open"
               /\ inputType' = type
               /\ channels' = Param(opts, "channels", 2)
               /\ bitDepth' = Param(opts, "bitDepth", 16)
  /\ UNCHANGED <<stage, chunkActive, calls, error, doneCalls, releases, out,
                 nChunks, decVars, opts, initCalled, initRuns, blockAlign,
                 remainder, written, submitted, lastSubmit, engSamples,
                 engUnits, lastResult, flushCb, propWrite, staleUse>>

\* a binding call is handed this.gfp / self.gfp: it reaches a closed handle
\* when lame_close has run and the field still holds the pointer
UsesHandle == staleUse' = (staleUse \/ (handle # "null" /\ releases > 0))

\* _init: this.blockAlign
BlockAlignOf(depth, chans) == (depth \div 8) * chans

\* a _transform that forgets the held remainder
WithRemainder_Dropped(rem, chunk) == chunk

\* a _transform that appends the held remainder instead of prepending it
WithRemainder_Swapped(rem, chunk) == IF rem # <<>> THEN chunk \o rem ELSE chunk

\* Buffer.concat([this._remainder, chunk]) when a remainder is held
WithRemainder(rem, chunk) == IF rem # <<>> THEN rem \o chunk ELSE chunk

\* chunk.length % this.blockAlign
TrailingLen(chunk, ba) == Len(chunk) % ba

\* a _transform that gives the engine the whole chunk
AlignedPart_Whole(chunk, ba) == chunk

\* chunk.slice(0, slice): the part given to the engine
AlignedPart(chunk, ba) ==
  IF TrailingLen(chunk, ba) > 0
    THEN SubSeq(chunk, 1, Len(chunk) - TrailingLen(chunk, ba))
    ELSE chunk

\* a _transform that keeps chunk.slice(remainder) instead of chunk.slice(slice)
TrailingPart_WrongSlice(chunk, ba) ==
  IF Len(chunk) % ba > 0
    THEN SubSeq(chunk, (Len(chunk) % ba) + 1, Len(chunk))
    ELSE <<>>

\* chunk.slice(slice): the new this._remainder (null when nothing trails)
TrailingPart(chunk, ba) ==
  IF TrailingLen(chunk, ba) > 0
    THEN SubSeq(chunk, Len(chunk) - TrailingLen(chunk, ba) + 1, Len(chunk))
    ELSE <<>>

\* the `if (!this._initCalled)` block of _transform and _flush, lame_init_params
\* having returned r: whether it throws
InitThrows(r) == ~initCalled /\ r # LAME_OKAY

\* an init block that never sets this._initCalled
InitEffect_NoFlag ==
  /\ initCalled' = initCalled
  /\ initRuns' = IF initCalled THEN initRuns ELSE initRuns + 1
  /\ blockAlign' = IF initCalled THEN blockAlign ELSE BlockAlignOf(bitDepth, channels)

\* the rest of the init block: _init succeeded, this._initCalled = true
InitEffect ==
  /\ initCalled' = TRUE
  /\ initRuns' = IF initCalled THEN initRuns ELSE initRuns + 1
  /\ blockAlign' = IF initCalled THEN blockAlign ELSE BlockAlignOf(bitDepth, channels)

InitResults == IF initCalled THEN {LAME_OKAY} ELSE {LAME_OKAY, -1}

\* Encoder._transform with a chunk of n bytes
EncTransform ==
  /\ stage = "Encoder" /\ stream = "open" /\ ~chunkActive
  /\ nChunks < MaxWrites
  /\ \E n \in 0..MaxChunkLen, r \in InitResults :
       /\ written + n <= MaxInput
       /\ written' = written + n
       /\ nChunks' = nChunks + 1
       /\ IF InitThrows(r)
            THEN /\ chunkActive' = FALSE
                 /\ doneCalls' = 1
                 /\ error' = <<"lame_init_params", r>>
                 /\ stream' = "errored"
                 /\ UNCHANGED <<calls, initCalled, initRuns, blockAlign,
                                remainder, submitted, lastSubmit, staleUse>>
            ELSE /\ InitEffect
                 /\ UsesHandle
                 /\ LET chunk == WithRemainder(remainder, Range(written + 1, written + n))
                    IN /\ remainder' = TrailingPart(chunk, blockAlign')
                       /\ lastSubmit' = AlignedPart(chunk, blockAlign')
                       /\ submitted' = submitted \o AlignedPart(chunk, blockAlign')
                 /\ calls' = Append(calls, "encode")
                 /\ chunkActive' = TRUE
                 /\ doneCalls' = 0
                 /\ UNCHANGED <<error, stream>>
  /\ UNCHANGED <<stage, handle, releases, out, decVars, opts, inputType,
                 bitDepth, channels, engSamples, engUnits, lastResult, flushCb,
                 propWrite>>

\* engine: output units a successful encode of numSamples sample frames yields
EngineEncode(numSamples) == ((engSamples + numSamples) \div FrameSamples) - engUnits

\* an encode callback whose `bytesWritten == 0` branch does not call done()
EncodeCallback_NoDoneOnZero ==
  /\ calls # <<>> /\ Head(calls) = "encode"
  /\ calls' = Tail(calls)
  /\ LET numSamples == Len(lastSubmit) \div blockAlign
     IN \E bytesWritten \in {EngineEncode(numSamples)} \cup ERRORS :
       /\ lastResult' = bytesWritten
       /\ IF bytesWritten < 0
            THEN /\ DoneCb(<<"lame_encode_buffer", bytesWritten>>)
                 /\ UNCHANGED <<out, engSamples, engUnits>>
            ELSE /\ engSamples' = engSamples + numSamples
                 /\ engUnits' = engUnits + bytesWritten
                 /\ IF bytesWritten > 0
                      THEN /\ out' = Append(out, <<"mp3", engUnits + 1, bytesWritten>>)
                           /\ DoneCb(NoError)
                      ELSE /\ out' = out
                           /\ NotDone
  /\ UNCHANGED <<stage, handle, releases, nChunks, decVars, opts, inputType,
                 bitDepth, channels, initCalled, initRuns, blockAlign,
                 remainder, written, submitted, lastSubmit, flushCb,
                 propWrite, staleUse>>

\* callback of lame_encode_buffer
EncodeCallback ==
  /\ calls # <<>> /\ Head(calls) = "encode"
  /\ calls' = Tail(calls)
  /\ LET numSamples == Len(lastSubmit) \div blockAlign
     IN \E bytesWritten \in {EngineEncode(numSamples)} \cup ERRORS :
       /\ lastResult' = bytesWritten
       /\ IF bytesWritten < 0
            THEN /\ DoneCb(<<"lame_encode_buffer", bytesWritten>>)
                 /\ UNCHANGED <<out, engSamples, engUnits>>
            ELSE /\ engSamples' = engSamples + numSamples
                 /\ engUnits' = engUnits + bytesWritten
                 /\ out' = IF bytesWritten > 0
                             THEN Append(out, <<"mp3", engUnits + 1, bytesWritten>>)
                             ELSE out
                 /\ DoneCb(NoError)
  /\ UNCHANGED <<stage, handle, releases, nChunks, decVars, opts, inputType,
                 bitDepth, channels, initCalled, initRuns, blockAlign,
                 remainder, written, submitted, lastSubmit, flushCb,
                 propWrite, staleUse>>

\* Encoder._flush, called by the framework at the end of the input
EncFlush ==
  /\ stage = "Encoder" /\ stream = "open" /\ ~chunkActive
  /\ \E r \in InitResults :
       IF InitThrows(r)
         THEN /\ chunkActive' = FALSE
              /\ doneCalls' = 1
              /\ error' = <<"lame_init_params", r>>
              /\ stream' = "errored"
              /\ UNCHANGED <<calls, initCalled, initRuns, blockAlign, staleUse>>
         ELSE /\ InitEffect
              /\ UsesHandle
              /\ calls' = Append(calls, "flush")
              /\ chunkActive' = TRUE
              /\ doneCalls' = 0
              /\ stream' = "ending"
              /\ UNCHANGED error
  /\ UNCHANGED <<stage, handle, releases, out, nChunks, decVars, opts,
                 inputType, bitDepth, channels, remainder, written, submitted,
                 lastSubmit, engSamples, engUnits, lastResult, flushCb,
                 propWrite>>

\* engine: what lame_encode_flush_nogap reports
FlushResults == {0, 1} \cup ERRORS

\* a flush callback that closes the handle and keeps the pointer in self.gfp
FlushCallback_NoNull ==
  /\ calls # <<>> /\ Head(calls) = "flush"
  /\ calls' = Tail(calls)
  /\ \E result \in FlushResults : lastResult' = result
  /\ UsesHandle
  /\ releases' = releases + 1
  /\ handle' = handle
  /\ flushCb' = TRUE
  /\ stream' = "crashed"
  /\ UNCHANGED <<stage, chunkActive, error, doneCalls, out, nChunks, decVars,
                 opts, inputType, bitDepth, channels, initCalled, initRuns,
                 blockAlign, remainder, written, submitted, lastSubmit,
                 engSamples, engUnits, propWrite>>

\* callback of lame_encode_flush_nogap.  It declares no parameter: after
\* lame_close and `self.gfp = null` the read of `bytesWritten` throws a
\* ReferenceError, so nothing is pushed and done() is not called.
FlushCallback ==
  /\ calls # <<>> /\ Head(calls) = "flush"
  /\ calls' = Tail(calls)
  /\ \E result \in FlushResults : lastResult' = result
  /\ UsesHandle
  /\ releases' = releases + 1
  /\ handle' = "null"
  /\ flushCb' = TRUE
  /\ stream' = "crashed"
  /\ UNCHANGED <<stage, chunkActive, error, doneCalls, out, nChunks, decVars,
                 opts, inputType, bitDepth, channels, initCalled, initRuns,
                 blockAlign, remainder, written, submitted, lastSubmit,
                 engSamples, engUnits, propWrite>>

\* engine: what a property setter returns for a live handle
LiveHandleResults == {LAME_OKAY, -1}

\* engine: a setter given a null handle rejects it
NullHandleResults == {-1}

\* binding[key](this.gfp, v)
SetterResults(h) == IF h = "null" THEN NullHandleResults ELSE LiveHandleResults

\* a write of an engine property of the instance (desc.set)
SetProp ==
  /\ stage = "Encoder" /\ stream \notin {"new", "ctorThrew"}
  /\ UsesHandle
  /\ \E r \in SetterResults(handle) :
       propWrite' = <<IF LAME_OKAY # r THEN "threw" ELSE "returned", releases > 0>>
  /\ UNCHANGED <<stage, stream, chunkActive, calls, error, doneCalls, handle,
                 releases, out, nChunks, decVars, opts, inputType, bitDepth,
                 channels, initCalled, initRuns, blockAlign, remainder, written,
                 submitted, lastSubmit, engSamples, engUnits, lastResult, flushCb>>

\* a read of an engine property of the instance (desc.get)
GetProp ==
  /\ stage = "Encoder" /\ stream \notin {"new", "ctorThrew"}
  /\ UsesHandle
  /\ UNCHANGED <<stage, stream, chunkActive, calls, error, doneCalls, handle,
                 releases, out, nChunks, decVars, opts, inputType, bitDepth,
                 channels, initCalled, initRuns, blockAlign, remainder, written,
                 submitted, lastSubmit, engSamples, engUnits, lastResult, flushCb,
                 propWrite>>

(***************************************************************************)
(* Specification                                                           *)
(***************************************************************************)

\* an options object with the given float and bitDepth (0: not given)
OptsOf(f, b) ==
  [k \in (IF f THEN {"float"} ELSE {}) \cup (IF b # 0 THEN {"bitDepth"} ELSE {})
     |-> IF k = "float" THEN TRUE ELSE b]

UserOptions == {OptsOf(f, b) : f \in BOOLEAN,
                               b \in {0, 8, SHORT_BITS, FLOAT_BITS, DOUBLE_BITS}}

\* the (float, bitDepth) combinations with an input type
Supported == {<<FALSE, SHORT_BITS>>, <<TRUE, FLOAT_BITS>>, <<TRUE, DOUBLE_BITS>>}

InitCommon ==
  /\ chunkActive = FALSE /\ calls = <<>> /\ error = NoError /\ doneCalls = 0
  /\ releases = 0 /\ out = <<>> /\ nChunks = 0
  /\ rd = NoRead /\ last = NoLast /\ engGen = 0 /\ nReads = 0
  /\ lastFeed = MPG123_OK /\ engPcm = {}
  /\ initCalled = FALSE /\ initRuns = 0 /\ blockAlign = 0 /\ remainder = <<>>
  /\ written = 0 /\ submitted = <<>> /\ lastSubmit = <<>>
  /\ engSamples = 0 /\ engUnits = 0 /\ lastResult = 0 /\ flushCb = FALSE
  /\ propWrite = <<"none", FALSE>> /\ staleUse = FALSE

\* a Decoder after its constructor: mpg123_new and mpg123_open_feed succeeded
InitDecoder ==
  /\ stage = "Decoder" /\ stream = "open" /\ handle = "live"
  /\ opts = OptsOf(FALSE, 0) /\ inputType = "unset" /\ bitDepth = 0 /\ channels = 0

\* an Encoder about to be constructed from some options object
InitEncoderNew ==
  /\ stage = "Encoder" /\ stream = "new" /\ handle = "null"
  /\ opts \in UserOptions /\ inputType = "unset" /\ bitDepth = 0 /\ channels = 0

\* an Encoder instance whose fields are as the constructor's assignments leave
\* them for a supported format: the state _transform and _flush start from
InitEncoder ==
  /\ stage = "Encoder" /\ stream = "open" /\ handle = "live"
  /\ \E c \in Supported :
       /\ opts = OptsOf(c[1], c[2])
       /\ bitDepth = c[2]
       /\ inputType = (IF c[2] = DOUBLE_BITS THEN "PCM_TYPE_DOUBLE"
                       ELSE IF c[2] = FLOAT_BITS THEN "PCM_TYPE_FLOAT"
                       ELSE "PCM_TYPE_SHORT_INT")
  /\ channels \in 1..MaxChannels

Init == InitCommon /\ (InitDecoder \/ InitEncoderNew \/ InitEncoder)

Next ==
  \/ DecTransform
  \/ FeedCallback
  \/ ReadCallback
  \/ Id3Callback
  \/ DecEnd
  \/ Destroy
  \/ EncoderConstructor
  \/ EncTransform
  \/ EncodeCallback
  \/ EncFlush
  \/ FlushCallback
  \/ SetProp
  \/ GetProp

Spec == Init /\ [][Next]_vars

\* the Decoder alone, every engine callback eventually running (the bindings
\* run each call on the thread pool and invoke its callback once)
DecNext ==
  \/ DecTransform
  \/ FeedCallback
  \/ ReadCallback
  \/ Id3Callback
  \/ DecEnd
  \/ Destroy

DecInit == InitCommon /\ InitDecoder

DecFairSpec ==
  /\ DecInit
  /\ [][DecNext]_vars
  /\ WF_vars(FeedCallback) /\ WF_vars(ReadCallback) /\ WF_vars(Id3Callback)

(***************************************************************************)
(* Properties                                                              *)
(***************************************************************************)

\* the units of the buffers the Encoder pushed, concatenated
RECURSIVE Emitted(_)
Emitted(log) ==
  IF log = <<>> THEN <<>>
  ELSE Range(Head(log)[2], Head(log)[2] + Head(log)[3] - 1) \o Emitted(Tail(log))

\* the number of format events among the first n entries of the log
FormatsIn(n) == Cardinality({j \in 1..n : out[j][1] = "format"})

\* C1: every buffer given to lame_encode_buffer has a length that is an exact
\* multiple of bitDepth/8 * channels, whatever the lengths of the writes
C1_EncodeAligned ==
  (stage = "Encoder" /\ initCalled) =>
     Len(lastSubmit) % BlockAlignOf(bitDepth, channels) = 0

\* C1 witness: a later write, joined with a held remainder, is submitted in part
\* and leaves a new remainder
C1_Witness ==
  /\ stage = "Encoder" /\ nChunks >= 2 /\ calls = <<"encode">>
  /\ Len(lastSubmit) > 0 /\ remainder # <<>>
  /\ lastSubmit[1] + Len(lastSubmit) + Len(remainder) - 1 = written

\* C2: once an Encoder stream has failed or finished, its handle has been
\* released exactly once (stated as the claim; the encode-error and
\* init-failure paths of the code release nothing)
C2_ReleasedExactlyOnce ==
  (stage = "Encoder" /\ stream \in {"errored", "finished", "crashed"}) =>
     releases = 1

\* C3: when the flush has completed the Remainder Buffer is empty (stated as
\* the claim; _flush never looks at this._remainder)
C3_RemainderEmptyAfterFlush == flushCb => remainder = <<>>

\* C4: when the flush call has completed, done() has been invoked exactly
\* once, with an error carrying the code if the result was negative (stated
\* as the claim; the callback throws before it reaches done)
C4_FlushCompletes ==
  flushCb => /\ doneCalls = 1
             /\ lastResult < 0 => error = <<"lame_encode_flush_nogap", lastResult>>
             /\ lastResult >= 0 => error = NoError

\* C5: a read whose meta flags have the new-ID3 bit set is handled only after
\* mpg123_id3 was fetched for it (stated as the claim; the code's test is
\* inverted by operator precedence)
C5_Id3FetchedWhenNewId3 ==
  (stage = "Decoder" /\ last.no > 0 /\ HasNewId3(last.meta)) =>
     /\ last.fetched
     /\ last.pushed => last.bytes > 0

\* C6: once a Decoder has been torn down (chunk error, end of stream, or the
\* pipeline destroyed) its handle has been released exactly once (stated as
\* the claim; the class releases the handle nowhere)
C6_DecoderReleasedOnce ==
  (stage = "Decoder" /\ stream \in {"errored", "finished", "destroyed"}) =>
     releases = 1

\* C7: every pushed PCM buffer decoded under the g-th reported format is
\* preceded in the output by at least g format events
C7_FormatBeforePcm ==
  \A i \in DOMAIN out :
     out[i][1] = "pcm" => FormatsIn(i - 1) >= out[i][3]

\* C7 witness: PCM decoded under a newly reported format has been pushed
C7_Witness ==
  \E i \in DOMAIN out : out[i][1] = "pcm" /\ out[i][3] >= 1

\* C8: at most one engine call is outstanding against the handle
C8_SingleFlight == Len(calls) <= 1

\* C8 witness: in the second chunk, a read is outstanding after a metadata
\* fetch of the previous read completed
C8_Witness ==
  /\ stage = "Decoder" /\ nChunks = 2 /\ calls = <<"read">> /\ last.fetched

\* C9: the bytes given to the engine over the stream are the block-aligned
\* prefix of the input, and the output pushed by completed chunks is the
\* engine's output for that prefix: neither depends on the chunk boundaries
C9_ChunkingIndependent ==
  (stage = "Encoder" /\ initCalled) =>
     /\ submitted = Range(1, written - (written % blockAlign))
     /\ (calls = <<>> /\ error = NoError) =>
           Emitted(out) = Range(1, (Len(submitted) \div blockAlign) \div FrameSamples)

\* C9 witness: three chunks, a remainder carried across a boundary, output pushed
C9_Witness ==
  /\ stage = "Encoder" /\ nChunks = 3 /\ calls = <<>> /\ error = NoError
  /\ Len(out) >= 2 /\ remainder # <<>> /\ written % blockAlign # 0

\* C10: the constructor throws only for an unsupported (float, bitDepth)
\* combination (stated as the claim; the code tests options.bitDepth, which
\* the parameter destructuring has removed from options)
C10_SupportedConstructs ==
  stream = "ctorThrew" =>
     <<Truthy(opts, "float"), Param(opts, "bitDepth", 16)>> \notin Supported

\* C11: a write of n bytes onto a remainder of r bytes gives the engine
\* (r + n) - ((r + n) mod blockAlign) bytes and leaves (r + n) mod blockAlign
\* bytes in the remainder, fewer than blockAlign
C11_RemainderArithmetic ==
  [][(stage = "Encoder" /\ calls = <<>> /\ calls' = <<"encode">>) =>
       LET total == Len(remainder) + (written' - written)
           ba == BlockAlignOf(bitDepth, channels)
       IN /\ Len(lastSubmit') = total - (total % ba)
          /\ Len(remainder') = total % ba
          /\ Len(remainder') < ba]_vars

\* C11 witness: a second write, shorter than a sample frame, completes the
\* frame begun by the held remainder: exactly blockAlign bytes are submitted
\* and nothing remains
C11_Witness ==
  /\ stage = "Encoder" /\ nChunks = 2 /\ calls = <<"encode">>
  /\ blockAlign > MaxChunkLen
  /\ Len(lastSubmit) = blockAlign /\ remainder = <<>>

\* C13: lame_init_params has not run before the first _transform/_flush, has
\* succeeded exactly once whenever an encode or flush call has been issued,
\* never succeeds twice, and after its failure no engine call is issued
C13_InitOnce ==
  stage = "Encoder" =>
     /\ initRuns <= 1
     /\ initCalled <=> initRuns = 1
     /\ (nChunks = 0 /\ ~chunkActive /\ stream \in {"new", "ctorThrew", "open"})
           => initRuns = 0
     /\ (calls # <<>> \/ submitted # <<>> \/ flushCb) => initRuns = 1
     /\ error[1] = "lame_init_params" =>
           (initRuns = 0 /\ calls = <<>> /\ lastSubmit = <<>> /\ ~flushCb)

\* C13 witness: the flush call is outstanding after two chunks, with one run
\* of the initialization
C13_Witness ==
  /\ stage = "Encoder" /\ nChunks >= 2 /\ calls = <<"flush">> /\ initRuns = 1

\* C14: for a read whose meta flags do not have the new-ID3 bit, no metadata
\* fetch is issued and no id3 event is emitted (stated as the claim; the
\* code fetches exactly for these reads)
C14_NoFetchWithoutNewId3 ==
  stage = "Decoder" =>
     /\ (calls # <<>> /\ Head(calls) = "id3") => HasNewId3(rd.meta)
     /\ (last.no > 0 /\ ~HasNewId3(last.meta)) =>
           (~last.fetched /\ ~last.id3Emitted)

\* C20: the bytes given to the engine so far, followed by the remainder, are
\* the bytes written so far, in order
C20_BytesConserved ==
  (stage = "Encoder" /\ initCalled) =>
     submitted \o remainder = Range(1, written)

\* C20 witness: writes shorter than a sample frame have added up to a
\* submitted frame and a held remainder
C20_Witness ==
  /\ stage = "Encoder" /\ blockAlign > MaxChunkLen
  /\ submitted # <<>> /\ remainder # <<>>

\* C15: when the encode callback reports bytesWritten, done() runs exactly
\* once for the chunk; a negative result fails the chunk with that code and
\* pushes nothing, a positive one pushes one buffer of bytesWritten bytes, and
\* zero pushes nothing and completes the chunk
C15_EncodeResultHandled ==
  [][(stage = "Encoder" /\ calls = <<"encode">> /\ calls' = <<>>) =>
       LET bytesWritten == lastResult'
       IN /\ doneCalls = 0 /\ doneCalls' = 1 /\ ~chunkActive'
          /\ bytesWritten < 0 =>
                (out' = out /\ error' = <<"lame_encode_buffer", bytesWritten>>)
          /\ bytesWritten > 0 =>
                /\ Len(out') = Len(out) + 1
                /\ SubSeq(out', 1, Len(out)) = out
                /\ out'[Len(out')][1] = "mp3"
                /\ out'[Len(out')][3] = bytesWritten
                /\ error' = NoError
          /\ bytesWritten = 0 => (out' = out /\ error' = NoError)]_vars

\* C15 witness: a first chunk was completed with bytesWritten = 0 and nothing
\* pushed, a second one with bytesWritten > 0 and one buffer pushed
C15_Witness ==
  /\ stage = "Encoder" /\ nChunks = 2 /\ calls = <<>> /\ doneCalls = 1
  /\ ~flushCb /\ error = NoError /\ lastResult > 0 /\ Len(out) = 1

\* C16: done() runs at most once per chunk, and once it has run the Decoder
\* issues no engine call, pushes nothing and emits nothing until the next
\* chunk's _transform, which starts with a single feed
C16_NothingAfterDone ==
  [][stage = "Decoder" =>
       /\ doneCalls' <= 1
       /\ ~chunkActive =>
             /\ out' = out /\ nReads' = nReads
             /\ calls = <<>>
             /\ calls' = <<>> \/ (chunkActive' /\ calls' = <<"feed">>)]_vars

\* C16 witness: the second chunk's feed is outstanding after the first chunk
\* pushed PCM and completed
C16_Witness ==
  /\ stage = "Decoder" /\ nChunks = 2 /\ calls = <<"feed">> /\ doneCalls = 0
  /\ error = NoError /\ \E i \in DOMAIN out : out[i][1] = "pcm"

\* C17: when mpg123_feed reports a status other than MPG123_OK the chunk
\* fails with an error carrying that status, and no read, no metadata fetch,
\* no push and no event follows
C17_FeedFailure ==
  [][stage = "Decoder" =>
       /\ (calls = <<"feed">> /\ calls' # calls /\ lastFeed' # MPG123_OK) =>
             /\ error' = <<"mpg123_feed", lastFeed'>>
             /\ doneCalls' = 1 /\ ~chunkActive'
             /\ calls' = <<>> /\ out' = out /\ nReads' = nReads
       /\ error[1] = "mpg123_feed" =>
             (calls' = <<>> /\ out' = out /\ nReads' = nReads /\ error' = error)]_vars

\* C17 witness: the second chunk's feed failed after the first chunk's reads
C17_Witness ==
  /\ stage = "Decoder" /\ nChunks = 2 /\ error = <<"mpg123_feed", MPG123_ERR>>
  /\ nReads >= 1 /\ calls = <<>>

\* the read numbers of the PCM buffers pushed, in the order of the pushes
RECURSIVE PcmReads(_)
PcmReads(log) ==
  IF log = <<>> THEN <<>>
  ELSE (IF Head(log)[1] = "pcm" THEN <<Head(log)[2]>> ELSE <<>>) \o PcmReads(Tail(log))

Increasing(seq) == \A i \in 1..(Len(seq) - 1) : seq[i] < seq[i + 1]

SeqRange(seq) == {seq[i] : i \in DOMAIN seq}

\* the read whose handling a metadata fetch holds back (fetch outstanding) or
\* has aborted (fetch failed): its number, and whether it reported NEW_FORMAT
HeldBack ==
  IF rd.no > 0 THEN <<{rd.no}, rd.ret = MPG123_NEW_FORMAT>>
  ELSE IF error[1] = "mpg123_id3" THEN <<{last.no}, last.ret = MPG123_NEW_FORMAT>>
  ELSE <<{}, FALSE>>

ReadsOn == calls' = <<"read">> /\ chunkActive' /\ doneCalls' = 0
Ended(e) == calls' = <<>> /\ ~chunkActive' /\ doneCalls' = 1 /\ error' = e

\* the dispatch on the status of the read just dealt with
Dispatched ==
  IF last'.ret \in {MPG123_OK, MPG123_NEW_FORMAT} THEN ReadsOn
  ELSE IF last'.ret \in {MPG123_DONE, MPG123_NEED_MORE} THEN Ended(NoError)
  ELSE Ended(<<"mpg123_read", last'.ret>>)

====
